---------------------------- MODULE Spec2Model ----------------------------
(***************************************************************************)
(* A model of .github/scripts/syntax_checker.py: one run of the script,    *)
(* from the module-level client construction to the process exit.          *)
(*                                                                         *)
(* Text is modelled at two grains.  A file path and a file content are     *)
(* sequences of one-character strings.  A model response is a sequence of  *)
(* atoms, each an indivisible chunk of characters: the fence "```", the    *)
(* word "json", a quote, a JSON punctuation mark, white space, or a word   *)
(* that contains neither a back-tick nor a quote.  Python's substring      *)
(* test, split and strip act on atoms exactly as they act on the           *)
(* characters the atoms stand for.                                         *)
(***************************************************************************)
EXTENDS Integers, Sequences, FiniteSets, TLC

(***************************************************************************)
(* Bounds of the model.                                                    *)
(***************************************************************************)
\* The longest changed-files list the model enumerates.
MaxFiles == 2

(***************************************************************************)
(* Generic sequence helpers (Python str operations on atom sequences).     *)
(***************************************************************************)
Range(s) == {s[i] : i \in DOMAIN s}

\* s[i:] with a 1-based first index.
Drop(s, i) == SubSeq(s, i, Len(s))

\* str.startswith
startswith(s, prefix) ==
    /\ Len(prefix) <= Len(s)
    /\ SubSeq(s, 1, Len(prefix)) = prefix

\* str.find, 1-based; 0 when sep does not occur in s.
IndexOf(s, sep) ==
    LET hits == {i \in 1..(Len(s) - Len(sep) + 1) :
                    SubSeq(s, i, i + Len(sep) - 1) = sep}
    IN  IF hits = {} THEN 0 ELSE CHOOSE i \in hits : \A j \in hits : i <= j

\* sep in s
Contains(s, sep) == IndexOf(s, sep) # 0

\* s.split(sep)[0]
Split0(s, sep) ==
    LET i == IndexOf(s, sep)
    IN  IF i = 0 THEN s ELSE SubSeq(s, 1, i - 1)

\* s.split(sep)[1], used only where sep occurs in s
Split1(s, sep) ==
    LET i == IndexOf(s, sep)
    IN  Split0(Drop(s, i + Len(sep)), sep)

Whitespace == {" ", "\n"}

RECURSIVE lstrip(_)
lstrip(s) ==
    IF s # <<>> /\ Head(s) \in Whitespace THEN lstrip(Tail(s)) ELSE s

RECURSIVE rstrip(_)
rstrip(s) ==
    IF s # <<>> /\ s[Len(s)] \in Whitespace
    THEN rstrip(SubSeq(s, 1, Len(s) - 1))
    ELSE s

\* str.strip
strip(s) == rstrip(lstrip(s))

\* The characters of a sequence of atoms as one string.
RECURSIVE Join(_)
Join(s) == IF s = <<>> THEN "" ELSE Head(s) \o Join(Tail(s))

(***************************************************************************)
(* JSON values and json.loads.  A value is a record [t, v]: t is the JSON  *)
(* type and v the payload (a string, a number, a sequence of values, or a  *)
(* sequence of <<key, value>> pairs in document order).                    *)
(***************************************************************************)
JStr(s)  == [t |-> "str",  v |-> s]
JNum(n)  == [t |-> "num",  v |-> n]
JArr(a)  == [t |-> "arr",  v |-> a]
JObj(m)  == [t |-> "obj",  v |-> m]
JNull    == [t |-> "null", v |-> <<>>]

\* The fence atom stands for three back-ticks (the TLA+ lexer admits no
\* back-tick inside a string, so the atom is spelled out).
FENCE == "<3 backticks>"
DQ == "\""

\* The number atoms of the model and their values.
NumAtoms == {"0", "5"}
NumVal(a) == IF a = "0" THEN 0 ELSE 5

Fail == [ok |-> FALSE, val |-> JNull, pos |-> 0]
Ok(val, pos) == [ok |-> TRUE, val |-> val, pos |-> pos]

\* The index of the first atom at or after i that is not white space.
RECURSIVE SkipWs(_, _)
SkipWs(s, i) ==
    IF i <= Len(s) /\ s[i] \in Whitespace THEN SkipWs(s, i + 1) ELSE i

\* A string literal that opens at s[i]: up to the next quote; a raw line
\* break inside a string literal is a decode error.
ParseString(s, i) ==
    LET closes == {j \in (i + 1)..Len(s) : s[j] = DQ}
    IN  IF closes = {} THEN Fail
        ELSE LET j    == CHOOSE k \in closes : \A l \in closes : k <= l
                 body == SubSeq(s, i + 1, j - 1)
             IN  IF "\n" \in Range(body) THEN Fail
                 ELSE Ok(JStr(Join(body)), j + 1)

\* The parser is a recursive descent.  The result of each recursive call
\* is bound with a quantifier over a singleton set, so that it is
\* evaluated once however often the rest of the definition reads it.
RECURSIVE ParseValue(_, _), ParseMembers(_, _, _), ParseElements(_, _, _)
RECURSIVE MemberAfterKey(_, _, _), MemberAfterValue(_, _, _, _)
RECURSIVE ElementAfterValue(_, _, _)

\* The value that starts at s[i] (white space already skipped).
ParseValue(s, i) ==
    IF i > Len(s) THEN Fail
    ELSE IF s[i] = "{" THEN
        LET j == SkipWs(s, i + 1)
        IN  IF j <= Len(s) /\ s[j] = "}" THEN Ok(JObj(<<>>), j + 1)
            ELSE ParseMembers(s, j, <<>>)
    ELSE IF s[i] = "[" THEN
        LET j == SkipWs(s, i + 1)
        IN  IF j <= Len(s) /\ s[j] = "]" THEN Ok(JArr(<<>>), j + 1)
            ELSE ParseElements(s, j, <<>>)
    ELSE IF s[i] = DQ THEN ParseString(s, i)
    ELSE IF s[i] \in NumAtoms THEN Ok(JNum(NumVal(s[i])), i + 1)
    ELSE IF s[i] = "null" THEN Ok(JNull, i + 1)
    ELSE Fail

\* The members of an object from s[i] on: "key" : value, then "," or "}".
ParseMembers(s, i, acc) ==
    IF i > Len(s) \/ s[i] # DQ THEN Fail
    ELSE CHOOSE r \in {MemberAfterKey(s, k, acc) : k \in {ParseString(s, i)}} : TRUE

\* After the key k of a member: the colon and the value.
MemberAfterKey(s, k, acc) ==
    IF ~k.ok THEN Fail
    ELSE LET c == SkipWs(s, k.pos)
         IN  IF c > Len(s) \/ s[c] # ":" THEN Fail
             ELSE CHOOSE r \in {MemberAfterValue(s, k.val.v, x, acc) :
                                   x \in {ParseValue(s, SkipWs(s, c + 1))}} : TRUE

\* After the value x of the member named key: "}" ends the object, ","
\* must be followed by another member.
MemberAfterValue(s, key, x, acc) ==
    IF ~x.ok THEN Fail
    ELSE LET e == SkipWs(s, x.pos)
         IN  IF e > Len(s) THEN Fail
             ELSE IF s[e] = "}" THEN Ok(JObj(Append(acc, <<key, x.val>>)), e + 1)
             ELSE IF s[e] = ","
                  THEN ParseMembers(s, SkipWs(s, e + 1), Append(acc, <<key, x.val>>))
             ELSE Fail

\* The elements of an array from s[i] on: value, then "," or "]".
ParseElements(s, i, acc) ==
    CHOOSE r \in {ElementAfterValue(s, x, acc) : x \in {ParseValue(s, i)}} : TRUE

\* After the element x: "]" ends the array, "," must be followed by
\* another element.
ElementAfterValue(s, x, acc) ==
    IF ~x.ok THEN Fail
    ELSE LET e == SkipWs(s, x.pos)
         IN  IF e > Len(s) THEN Fail
             ELSE IF s[e] = "]" THEN Ok(JArr(Append(acc, x.val)), e + 1)
             ELSE IF s[e] = "," THEN ParseElements(s, SkipWs(s, e + 1), Append(acc, x.val))
             ELSE Fail

\* After the one value x of a document: white space, then the end.
DocumentAfterValue(s, x) ==
    IF ~x.ok THEN Fail
    ELSE IF SkipWs(s, x.pos) <= Len(s) THEN Fail
    ELSE x

\* json.loads: one value, white space around it, nothing after it.
\* ok = FALSE stands for json.JSONDecodeError.
json_loads(s) ==
    CHOOSE r \in {DocumentAfterValue(s, x) : x \in {ParseValue(s, SkipWs(s, 1))}} : TRUE

(***************************************************************************)
(* Python's operations on a parsed value.  Each returns a record whose exc *)
(* field names the exception raised ("none" when none is).                 *)
(***************************************************************************)
Value(x)   == [exc |-> "none", val |-> x]
Raises(e)  == [exc |-> e, val |-> JNull]

\* key in d, for a dict d
HasKey(d, key) == \E i \in DOMAIN d.v : d.v[i][1] = key

\* d[key] for a dict d that has the key (the last pair of a repeated key)
Lookup(d, key) ==
    LET at == {i \in DOMAIN d.v : d.v[i][1] = key}
    IN  d.v[CHOOSE i \in at : \A j \in at : j <= i][2]

\* x[key] with a str key: KeyError on a dict without the key, TypeError on
\* a list, a str, a number or None.
subscript(x, key) ==
    IF x.t = "obj"
    THEN IF HasKey(x, key) THEN Value(Lookup(x, key)) ELSE Raises("KeyError")
    ELSE Raises("TypeError")

\* x.get(key, default): only a dict has the method.
get(x, key, default) ==
    IF x.t = "obj"
    THEN Value(IF HasKey(x, key) THEN Lookup(x, key) ELSE default)
    ELSE Raises("AttributeError")

\* bool(x)
truthy(x) ==
    CASE x.t = "str"  -> x.v # ""
      [] x.t = "num"  -> x.v # 0
      [] x.t = "arr"  -> x.v # <<>>
      [] x.t = "obj"  -> x.v # <<>>
      [] x.t = "null" -> FALSE

\* The items of "for item in x": the elements of a list, the keys of a
\* dict, the characters of a str; a number is not iterable.
iterate(x) ==
    CASE x.t = "arr"  -> Value(x.v)
      [] x.t = "obj"  -> Value([i \in DOMAIN x.v |-> JStr(x.v[i][1])])
      [] x.t = "str"  -> Value([i \in 1..Len(x.v) |-> JStr("c")])
      [] x.t = "num"  -> Raises("TypeError")
      [] x.t = "null" -> Raises("TypeError")

\* x == w for a str literal w
StrEq(x, w) == x.t = "str" /\ x.v = w

\* hash(x) succeeds: a list and a dict are unhashable.
hashable(x) == x.t \notin {"arr", "obj"}

(***************************************************************************)
(* The process environment and the disk.                                   *)
(***************************************************************************)
\* The six environment variables the module reads (lines 9, 10, 14-17).
EnvNames == {"AZURE_OPENAI_ENDPOINT", "AZURE_OPENAI_KEY", "AZURE_OPENAI_DEPLOYMENT",
             "GITHUB_TOKEN", "PR_NUMBER", "REPO_NAME"}

\* The paths of the model, as characters.
APP_PY    == <<"a", ".", "p", "y">>
README_MD == <<"r", ".", "m", "d">>
MAIN_PY   == <<"m", ".", "P", "Y">>
GONE_JS   == <<"g", ".", "j", "s">>
LOCKED_GO == <<"l", ".", "g", "o">>
ERRORS_PY == <<"e", ".", "p", "y">>

Paths == {APP_PY, README_MD, MAIN_PY, GONE_JS, LOCKED_GO, ERRORS_PY}

\* os.path.exists: gone.js is listed but not on disk.
exists(path) == path # GONE_JS

\* What open(path).read() gives: the text, or an exception (l.go cannot be
\* read).  e.py is a readable file whose text begins "Errors = ...".
Disk(path) ==
    CASE path = LOCKED_GO -> [exc |-> "PermissionError", text |-> <<>>]
      [] path = ERRORS_PY -> [exc |-> "none",
                              text |-> <<"E", "r", "r", "o", "r", "s", "=", "1">>]
      [] OTHER            -> [exc |-> "none", text |-> <<"x", "=", "1">>]

\* The lines changed_files.txt can hold: a path and its line break, with
\* or without padding, or a blank line.
Lines == {p \o <<"\n">> : p \in Paths} \cup {<<" ">> \o APP_PY \o <<" ", "\n">>,
                                               <<" ", "\n">>}

\* The states of changed_files.txt: absent, or up to MaxFiles lines.
ListFiles ==
    {[present |-> FALSE, lines |-> <<>>]} \cup
    {[present |-> TRUE, lines |-> l] :
        l \in UNION {[1..n -> Lines] : n \in 0..MaxFiles}}

(***************************************************************************)
(* get_changed_files, read_file_content and the extension filter.          *)
(***************************************************************************)
\* get_changed_files (lines 19-27): the stripped non-blank lines, or the
\* empty list when the file is absent.
RECURSIVE StrippedLines(_)
StrippedLines(lines) ==
    IF lines = <<>> THEN <<>>
    ELSE IF strip(Head(lines)) # <<>>
         THEN <<strip(Head(lines))>> \o StrippedLines(Tail(lines))
         ELSE StrippedLines(Tail(lines))

get_changed_files(listfile) ==
    IF listfile.present THEN StrippedLines(listfile.lines) ELSE <<>>

\* The truncation threshold of read_file_content.
MaxContent == 10000

TruncationMark == <<"\n", ".", ".", ".", " ", "[", "F", "i", "l", "e", " ",
                    "t", "r", "u", "n", "c", "a", "t", "e", "d", " ", "f", "o", "r", " ",
                    "a", "n", "a", "l", "y", "s", "i", "s", "]">>

ErrorReadingFile == <<"E", "r", "r", "o", "r", " ", "r", "e", "a", "d", "i", "n", "g", " ",
                      "f", "i", "l", "e", ":", " ">>

\* A mutation of read_file_content: a failed read gives the empty text.
read_file_content_swallow(path) ==
    LET r == Disk(path)
    IN  IF r.exc # "none" THEN <<>>
        ELSE IF Len(r.text) > MaxContent
             THEN SubSeq(r.text, 1, MaxContent) \o TruncationMark
             ELSE r.text

\* read_file_content (lines 29-39): the text, cut to MaxContent characters
\* with the mark appended, or "Error reading file: <exception>".
read_file_content(path) ==
    LET r == Disk(path)
    IN  IF r.exc # "none" THEN ErrorReadingFile \o <<r.exc>>
        ELSE IF Len(r.text) > MaxContent
             THEN SubSeq(r.text, 1, MaxContent) \o TruncationMark
             ELSE r.text

\* os.path.splitext(path)[1]: from the last dot of the last component on,
\* unless only dots precede it there.
splitext(path) ==
    LET seps == {i \in DOMAIN path : path[i] = "/"}
        dots == {i \in DOMAIN path : path[i] = "."}
        sep  == IF seps = {} THEN 0 ELSE CHOOSE i \in seps : \A j \in seps : j <= i
        dot  == IF dots = {} THEN 0 ELSE CHOOSE i \in dots : \A j \in dots : j <= i
    IN  IF dot > sep /\ \E k \in (sep + 1)..(dot - 1) : path[k] # "."
        THEN Drop(path, dot)
        ELSE <<>>

\* code_extensions (lines 174-175)
code_extensions ==
    { <<".", "p", "y">>, <<".", "j", "s">>, <<".", "t", "s">>, <<".", "j", "s", "x">>,
      <<".", "t", "s", "x">>, <<".", "j", "a", "v", "a">>, <<".", "c", "p", "p">>,
      <<".", "c">>, <<".", "g", "o">>, <<".", "r", "s">>, <<".", "p", "h", "p">>,
      <<".", "r", "b">>, <<".", "c", "s">>, <<".", "s", "w", "i", "f", "t">>,
      <<".", "k", "t">>, <<".", "s", "c", "a", "l", "a">> }

\* str.lower on the characters of the model.
LowerChar(c) ==
    CASE c = "P" -> "p" [] c = "Y" -> "y" [] c = "E" -> "e" [] c = "F" -> "f"
      [] OTHER -> c

LowerSeq(s) == [i \in DOMAIN s |-> LowerChar(s[i])]

\* A mutation of IsCodeFile: the extension is matched ignoring case.
IsCodeFileAnyCase(path) == LowerSeq(splitext(path)) \in code_extensions

\* The test of lines 183-184: the extension is in code_extensions.
IsCodeFile(path) == splitext(path) \in code_extensions

(***************************************************************************)
(* The model service: what one chat-completion call can give back.         *)
(***************************************************************************)
Text(atoms) == [exc |-> "none", content |-> "str", text |-> atoms]

Str(w)    == <<DQ, w, DQ>>
Pair(k)   == Str(k) \o <<":">>
Status(w) == Pair("status") \o Str(w)
NoIssues  == Pair("issues") \o <<"[", "]">>
Summary(words) == Pair("summary") \o <<DQ>> \o words \o <<DQ>>
Object3(a, b, c) == <<"{">> \o a \o <<",">> \o b \o <<",", " ">> \o c \o <<"}">>
Object2(a, b)    == <<"{">> \o a \o <<",">> \o b \o <<"}">>

\* The approved shape the prompt asks for (lines 63-67).
ApprovedJson == Object3(Status("APPROVED"), NoIssues, Summary(<<"Looks", " ", "fine">>))

\* The approved shape, its summary quoting a fence: "Use <fence> here".
ApprovedTickJson ==
    Object3(Status("APPROVED"), NoIssues, Summary(<<"Use", " ", FENCE, " ", "here">>))

\* The needs-changes shape (lines 71-78), one issue at line 5.
Issue5 == <<"{">> \o Pair("line") \o <<"5", ",">> \o Pair("severity") \o Str("error")
          \o <<",">> \o Pair("message") \o Str("Unexpected token") \o <<"}">>
NeedsChangesJson ==
    Object3(Status("NEEDS_CHANGES"), Pair("issues") \o <<"[">> \o Issue5 \o <<"]">>,
            Summary(<<"1", " ", "issue">>))

JsonFenced(doc)  == <<FENCE, "json", "\n">> \o doc \o <<"\n", FENCE>>
PlainFenced(doc) == <<"Here", " ", "it", " ", "is", ":", "\n", FENCE, "\n">> \o doc
                    \o <<"\n", FENCE, "\n">>

\* The replies of the model: each is the text of choices[0].message.content,
\* a content of None, or an exception raised by the call.
Replies == <<
    Text(ApprovedJson),
    Text(JsonFenced(ApprovedJson)),
    Text(PlainFenced(ApprovedJson)),
    Text(ApprovedTickJson),
    Text(JsonFenced(ApprovedTickJson)),
    Text(JsonFenced(NeedsChangesJson)),
    Text(<<"The", " ", "code", " ", "looks", " ", "fine">>),
    Text(Object3(Status("approved"), NoIssues, Summary(<<"ok">>))),
    Text(Object3(Status(""), NoIssues, Summary(<<"ok">>))),
    Text(<<"[", "]">>),
    Text(Object2(NoIssues, Summary(<<"ok">>))),
    Text(Object2(Status("APPROVED"), NoIssues)),
    Text(Object3(Status("NEEDS_CHANGES"), Pair("issues") \o <<"[">> \o Str("bad") \o <<"]">>,
                 Summary(<<"ok">>))),
    [exc |-> "none", content |-> "None", text |-> <<>>],
    [exc |-> "APIConnectionError", content |-> "None", text |-> <<>>],
    [exc |-> "JSONDecodeError", content |-> "None", text |-> <<>>] >>

ReplyIds == DOMAIN Replies

(***************************************************************************)
(* analyze_code_with_ai (lines 41-123).                                    *)
(***************************************************************************)
SyntheticIssue(message) ==
    JObj(<< <<"line", JNum(0)>>, <<"severity", JStr("error")>>,
            <<"message", JStr(message)>> >>)

\* The verdict of the handler of json.JSONDecodeError (lines 112-116).
ParsingFailed ==
    JObj(<< <<"status", JStr("NEEDS_CHANGES")>>,
            <<"issues", JArr(<<SyntheticIssue("AI response parsing failed")>>)>>,
            <<"summary", JStr("Unable to parse AI analysis")>> >>)

\* The verdict of the handler of Exception (lines 119-123).
AnalysisFailed ==
    JObj(<< <<"status", JStr("NEEDS_CHANGES")>>,
            <<"issues", JArr(<<SyntheticIssue("AI analysis failed")>>)>>,
            <<"summary", JStr("Analysis error occurred")>> >>)

\* Lines 100-103: the text between a labelled fence and the next fence,
\* else the text between the first two fences, else the text as it is.
ExtractJson(result) ==
    IF Contains(result, <<FENCE, "json">>)
    THEN strip(Split0(Split1(result, <<FENCE, "json">>), <<FENCE>>))
    ELSE IF Contains(result, <<FENCE>>)
         THEN strip(Split0(Split1(result, <<FENCE>>), <<FENCE>>))
         ELSE result

\* What analyze_code_with_ai does with the reply of the call of line 86:
\* it returns a verdict, or it raises.  The handler of json.JSONDecodeError
\* prints result (line 111), which is bound only at line 96: when the call
\* itself raised that exception the handler raises UnboundLocalError.
analyze_code_with_ai(reply) ==
    IF reply.exc = "JSONDecodeError" THEN Raises("UnboundLocalError")
    ELSE IF reply.exc # "none" THEN Value(AnalysisFailed)
    ELSE IF reply.content = "None" THEN Value(AnalysisFailed)
    ELSE LET parsed == json_loads(ExtractJson(reply.text))
         IN  IF parsed.ok THEN Value(parsed.val) ELSE Value(ParsingFailed)

\* The verdict or the exception analyze_code_with_ai gives for each reply.
Verdicts == [id \in ReplyIds |-> analyze_code_with_ai(Replies[id])]

(***************************************************************************)
(* The report (lines 229-269).                                             *)
(***************************************************************************)
\* Lines 245-249: the marker of a severity; an unhashable one cannot be
\* looked up.
severity_emoji(severity) ==
    IF ~hashable(severity) THEN Raises("TypeError")
    ELSE IF severity.t # "str" THEN Value(JStr("white"))
    ELSE CASE severity.v = "error"   -> Value(JStr("red"))
           [] severity.v = "warning" -> Value(JStr("yellow"))
           [] severity.v = "info"    -> Value(JStr("blue"))
           [] OTHER                  -> Value(JStr("white"))

\* Lines 244-253: the bullet of one issue.
RenderIssue(issue) ==
    LET severity == get(issue, "severity", JStr("info"))
    IN  IF severity.exc # "none" THEN Raises(severity.exc)
        ELSE LET emoji == severity_emoji(severity.val)
             IN  IF emoji.exc # "none" THEN Raises(emoji.exc)
                 ELSE Value(<<emoji.val, get(issue, "line", JStr("N/A")).val,
                              get(issue, "message", JStr("No description")).val>>)

\* The bullets of a sequence of issues, up to the first that raises.
RECURSIVE RenderIssues(_)
RenderIssues(issues) ==
    IF issues = <<>> THEN Value(<<>>)
    ELSE LET first == RenderIssue(Head(issues))
         IN  IF first.exc # "none" THEN Raises(first.exc)
             ELSE LET rest == RenderIssues(Tail(issues))
                  IN  IF rest.exc # "none" THEN Raises(rest.exc)
                      ELSE Value(<<first.val>> \o rest.val)

\* Lines 233-258: the block of one analyzed file.
RenderFile(item) ==
    LET status  == subscript(item.result, "status")
        summary == subscript(item.result, "summary")
        issues  == subscript(item.result, "issues")
    IN  IF status.exc # "none" THEN Raises(status.exc)
        ELSE IF summary.exc # "none" THEN Raises(summary.exc)
        ELSE IF issues.exc # "none" THEN Raises(issues.exc)
        ELSE LET head == <<item.file,
                           IF StrEq(status.val, "APPROVED") THEN "ok" ELSE "warning",
                           status.val, summary.val>>
             IN  IF ~truthy(issues.val)
                 THEN Value(head \o <<"No issues found!">>)
                 ELSE LET items == iterate(issues.val)
                      IN  IF items.exc # "none" THEN Raises(items.exc)
                          ELSE LET bullets == RenderIssues(items.val)
                               IN  IF bullets.exc # "none" THEN Raises(bullets.exc)
                                   ELSE Value(head \o <<bullets.val>>)

RECURSIVE RenderFiles(_)
RenderFiles(results) ==
    IF results = <<>> THEN Value(<<>>)
    ELSE LET first == RenderFile(Head(results))
         IN  IF first.exc # "none" THEN Raises(first.exc)
             ELSE LET rest == RenderFiles(Tail(results))
                  IN  IF rest.exc # "none" THEN Raises(rest.exc)
                      ELSE Value(<<first.val>> \o rest.val)

\* The comment of lines 163 and 217.
NoFilesComment ==
    [title |-> "AI Code Review", count |-> 0, files |-> <<>>,
     overall |-> "No code files to review in this PR."]

\* Lines 229-269: the comment of a run that analyzed files.
RenderComment(results, overall) ==
    LET files == RenderFiles(results)
    IN  IF files.exc # "none" THEN Raises(files.exc)
        ELSE Value([title |-> "AI Code Review Results", count |-> Len(results),
                    files |-> files.val,
                    overall |-> IF overall = "APPROVED" THEN "Overall: APPROVED"
                                ELSE "Overall: NEEDS CHANGES"])

\* str.lower on the two values overall_status takes.
lower(status) ==
    CASE status = "APPROVED"      -> "approved"
      [] status = "NEEDS_CHANGES" -> "needs_changes"

(***************************************************************************)
(* The body of the loop of main (lines 181-213) on the locals it reads and *)
(* writes.  reads and model_calls log the files opened and the calls made; *)
(* uncaught names the exception that leaves main, if one does.             *)
(***************************************************************************)
ErrorPrefix == <<"E", "r", "r", "o", "r">>

\* Lines 183-201: the file reaches the call of line 203.
IsAnalyzed(file_path) ==
    /\ IsCodeFile(file_path)
    /\ exists(file_path)
    /\ ~startswith(read_file_content(file_path), ErrorPrefix)

LoopBody(loc, file_path, reply) ==
    IF ~IsCodeFile(file_path) THEN loc
    ELSE IF ~exists(file_path) THEN loc
    ELSE LET content == read_file_content(file_path)
             loc1    == [loc EXCEPT !.reads = Append(@, file_path)]
         IN  IF startswith(content, ErrorPrefix) THEN loc1
             ELSE LET r    == Verdicts[reply]
                      loc2 == [loc1 EXCEPT !.model_calls = Append(@, <<file_path, reply>>)]
                  IN  IF r.exc # "none" THEN [loc2 EXCEPT !.uncaught = r.exc]
                      ELSE LET loc3 == [loc2 EXCEPT !.all_results =
                                           Append(@, [file |-> file_path, result |-> r.val])]
                               status == subscript(r.val, "status")
                           IN  IF status.exc # "none"
                               THEN [loc3 EXCEPT !.uncaught = status.exc]
                               ELSE IF StrEq(status.val, "NEEDS_CHANGES")
                                    THEN [loc3 EXCEPT !.overall_status = "NEEDS_CHANGES"]
                                    ELSE loc3

(***************************************************************************)
(* The state of one run.                                                   *)
(***************************************************************************)
VARIABLES
    pc,                  \* the position of the process
    env,                 \* the names of EnvNames that are set
    fallback_credential, \* AZURE_OPENAI_API_KEY or AZURE_OPENAI_AD_TOKEN is set
    listfile,            \* changed_files.txt as get_changed_files found it
    list_read,           \* get_changed_files has run
    changed_files,       \* main's changed_files
    idx,                 \* the position of the loop of line 181
    all_results,         \* main's all_results
    overall_status,      \* main's overall_status ("UNSET" before line 178)
    reads,               \* the paths read_file_content opened
    model_calls,         \* the <<path, reply>> of every call of line 86
    comment,             \* main's comment
    posted,              \* the bodies requests.post was called with
    post_outcomes,       \* what each post gave: "201", another status, an exception
    status_file,         \* approval_status.txt: "absent" or its content
    exit_code,           \* the exit code of the process (-1 while it runs)
    uncaught             \* the exception that ended the process ("none" if none)

vars == <<pc, env, fallback_credential, listfile, list_read, changed_files, idx,
          all_results, overall_status, reads, model_calls, comment, posted,
          post_outcomes, status_file, exit_code, uncaught>>

NoComment == [title |-> "", count |-> 0, files |-> <<>>, overall |-> ""]

Init ==
    /\ pc = "import"
    /\ env \in SUBSET EnvNames
    /\ fallback_credential \in IF "AZURE_OPENAI_KEY" \in env THEN {FALSE} ELSE BOOLEAN
    /\ listfile = [present |-> FALSE, lines |-> <<>>]
    /\ list_read = FALSE
    /\ changed_files = <<>>
    /\ idx = 0
    /\ all_results = <<>>
    /\ overall_status = "UNSET"
    /\ reads = <<>>
    /\ model_calls = <<>>
    /\ comment = NoComment
    /\ posted = <<>>
    /\ post_outcomes = <<>>
    /\ status_file = "absent"
    /\ exit_code = -1
    /\ uncaught = "none"

\* The process ends on an exception nothing catches: a traceback, code 1.
Die(exception) ==
    /\ pc' = "done"
    /\ uncaught' = exception
    /\ exit_code' = 1

\* sys.exit(code)
SysExit(code) ==
    /\ pc' = "done"
    /\ exit_code' = code
    /\ UNCHANGED uncaught

\* AzureOpenAI(...) of lines 8-12 returns a client: it raises without an
\* endpoint, and without a key unless the environment holds another
\* credential the SDK falls back to.
ClientConstructed ==
    /\ "AZURE_OPENAI_ENDPOINT" \in env
    /\ ("AZURE_OPENAI_KEY" \in env \/ fallback_credential)

\* Lines 8-17: the module-level construction of the client.
ImportModule ==
    /\ pc = "import"
    /\ IF ClientConstructed
       THEN pc' = "main" /\ UNCHANGED <<exit_code, uncaught>>
       ELSE Die(IF "AZURE_OPENAI_ENDPOINT" \in env THEN "OpenAIError" ELSE "ValueError")
    /\ UNCHANGED <<env, fallback_credential, listfile, list_read, changed_files, idx,
                   all_results, overall_status, reads, model_calls, comment, posted,
                   post_outcomes, status_file>>

\* The values line 152 tests.
Verified == {"AZURE_OPENAI_DEPLOYMENT", "GITHUB_TOKEN", "PR_NUMBER", "REPO_NAME"}

\* Lines 151-157: the check of the environment.
CheckConfig ==
    /\ pc = "main"
    /\ IF Verified \subseteq env
       THEN pc' = "collect" /\ UNCHANGED <<exit_code, uncaught>>
       ELSE SysExit(1)
    /\ UNCHANGED <<env, fallback_credential, listfile, list_read, changed_files, idx,
                   all_results, overall_status, reads, model_calls, comment, posted,
                   post_outcomes, status_file>>

\* Lines 159-178: the list is read; an empty one goes to the comment of
\* line 163, another one to the loop.
Collect ==
    /\ pc = "collect"
    /\ \E lf \in ListFiles :
        /\ listfile' = lf
        /\ list_read' = TRUE
        /\ changed_files' = get_changed_files(lf)
        /\ IF get_changed_files(lf) = <<>>
           THEN /\ comment' = NoFilesComment
                /\ pc' = "post"
                /\ UNCHANGED <<idx, overall_status>>
           ELSE /\ pc' = "loop"
                /\ idx' = 1
                /\ overall_status' = "APPROVED"
                /\ UNCHANGED comment
    /\ UNCHANGED <<env, fallback_credential, all_results, reads, model_calls, posted,
                   post_outcomes, status_file, exit_code, uncaught>>

Locals == [all_results |-> all_results, overall_status |-> overall_status,
           reads |-> reads, model_calls |-> model_calls, uncaught |-> "none"]

\* Lines 181-213: one pass of the loop, on changed_files[idx].  The reply
\* of the model is drawn only when the pass makes the call.
LoopStep ==
    /\ pc = "loop"
    /\ idx <= Len(changed_files)
    /\ \E reply \in IF IsAnalyzed(changed_files[idx]) THEN ReplyIds ELSE {1} :
        LET loc == LoopBody(Locals, changed_files[idx], reply)
        IN  /\ all_results' = loc.all_results
            /\ overall_status' = loc.overall_status
            /\ reads' = loc.reads
            /\ model_calls' = loc.model_calls
            /\ IF loc.uncaught # "none"
               THEN Die(loc.uncaught) /\ UNCHANGED idx
               ELSE idx' = idx + 1 /\ UNCHANGED <<pc, exit_code, uncaught>>
    /\ UNCHANGED <<env, fallback_credential, listfile, list_read, changed_files,
                   comment, posted, post_outcomes, status_file>>

\* Lines 215-269: after the loop, the comment of line 217 when nothing was
\* analyzed, the report otherwise.
Report ==
    /\ pc = "loop"
    /\ idx > Len(changed_files)
    /\ IF all_results = <<>>
       THEN /\ comment' = NoFilesComment
            /\ pc' = "post"
            /\ UNCHANGED <<exit_code, uncaught>>
       ELSE LET r == RenderComment(all_results, overall_status)
            IN  IF r.exc # "none"
                THEN Die(r.exc) /\ UNCHANGED comment
                ELSE /\ comment' = r.val
                     /\ pc' = "post"
                     /\ UNCHANGED <<exit_code, uncaught>>
    /\ UNCHANGED <<env, fallback_credential, listfile, list_read, changed_files, idx,
                   all_results, overall_status, reads, model_calls, posted,
                   post_outcomes, status_file>>

\* What requests.post can give (lines 134-144).
PostOutcomes == {"201", "403", "ConnectionError"}

\* post_pr_comment (lines 125-144), called at lines 164, 218 and 272: the
\* outcome is logged and returned, and main ignores it.
PostComment ==
    /\ pc = "post"
    /\ \E outcome \in PostOutcomes :
        /\ posted' = Append(posted, comment)
        /\ post_outcomes' = Append(post_outcomes, outcome)
    /\ pc' = "write"
    /\ UNCHANGED <<env, fallback_credential, listfile, list_read, changed_files, idx,
                   all_results, overall_status, reads, model_calls, comment,
                   status_file, exit_code, uncaught>>

\* The run took one of the two "no code files" paths (lines 161-169 and
\* 215-222).
NoFilesPath == comment = NoFilesComment

\* What is written to approval_status.txt (lines 168, 221 and 276).
StatusWord == IF NoFilesPath THEN "approved" ELSE lower(overall_status)

\* Lines 167-168, 220-221 and 275-276.
WriteStatus ==
    /\ pc = "write"
    /\ status_file' = StatusWord
    /\ pc' = "exit"
    /\ UNCHANGED <<env, fallback_credential, listfile, list_read, changed_files, idx,
                   all_results, overall_status, reads, model_calls, comment, posted,
                   post_outcomes, exit_code, uncaught>>

\* The code of lines 169, 222 and 283-288.
ExitCode == IF NoFilesPath THEN 0
            ELSE IF overall_status = "NEEDS_CHANGES" THEN 1 ELSE 0

Exit ==
    /\ pc = "exit"
    /\ SysExit(ExitCode)
    /\ UNCHANGED <<env, fallback_credential, listfile, list_read, changed_files, idx,
                   all_results, overall_status, reads, model_calls, comment, posted,
                   post_outcomes, status_file>>

Next ==
    \/ ImportModule
    \/ CheckConfig
    \/ Collect
    \/ LoopStep
    \/ Report
    \/ PostComment
    \/ WriteStatus
    \/ Exit

Spec == Init /\ [][Next]_vars

(***************************************************************************)
(* main as one function of its inputs: the outcome of a run over a given   *)
(* list, the model answering its successive calls with the given replies.  *)
(***************************************************************************)
NoLocals == [all_results |-> <<>>, overall_status |-> "APPROVED",
             reads |-> <<>>, model_calls |-> <<>>, uncaught |-> "none"]

\* The loop of line 181 over files, from the locals loc.
RECURSIVE RunLoop(_, _, _)
RunLoop(loc, files, replies) ==
    IF files = <<>> \/ loc.uncaught # "none" THEN loc
    ELSE IF IsAnalyzed(Head(files))
         THEN IF replies = <<>> THEN loc
              ELSE CHOOSE r \in {RunLoop(l, Tail(files), Tail(replies)) :
                                    l \in {LoopBody(loc, Head(files), Head(replies))}} : TRUE
         ELSE CHOOSE r \in {RunLoop(l, Tail(files), replies) :
                               l \in {LoopBody(loc, Head(files), 1)}} : TRUE

Outcome(file, code, exception, bodies) ==
    [status_file |-> file, exit_code |-> code, uncaught |-> exception, posted |-> bodies]

\* Lines 215-288 on the locals the loop left.
AfterLoop(loc) ==
    IF loc.uncaught # "none" THEN Outcome("absent", 1, loc.uncaught, <<>>)
    ELSE IF loc.all_results = <<>> THEN Outcome("approved", 0, "none", <<NoFilesComment>>)
    ELSE LET r == RenderComment(loc.all_results, loc.overall_status)
         IN  IF r.exc # "none" THEN Outcome("absent", 1, r.exc, <<>>)
             ELSE Outcome(lower(loc.overall_status),
                          IF loc.overall_status = "NEEDS_CHANGES" THEN 1 ELSE 0,
                          "none", <<r.val>>)

\* Lines 159-288: main from the list it read.
MainOutcome(files, replies) ==
    IF files = <<>> THEN Outcome("approved", 0, "none", <<NoFilesComment>>)
    ELSE CHOOSE o \in {AfterLoop(l) : l \in {RunLoop(NoLocals, files, replies)}} : TRUE

(***************************************************************************)
(* Vocabulary of the properties.                                           *)
(***************************************************************************)
\* The process has ended.
Done == pc = "done"

\* The run passed the check of the environment (get_changed_files is the
\* first thing main does after it).
PassedConfig == list_read

\* The verdict v has the status w.
StatusIs(v, w) ==
    /\ v.t = "obj"
    /\ HasKey(v, "status")
    /\ StrEq(Lookup(v, "status"), w)

\* The calls made for path p, and the results held for it.
CallsFor(p)   == Cardinality({k \in DOMAIN model_calls : model_calls[k][1] = p})
ResultsFor(p) == Cardinality({k \in DOMAIN all_results : all_results[k].file = p})

\* The replies the model gave, in the order of the calls.
RepliesGiven == [k \in DOMAIN model_calls |-> model_calls[k][2]]

\* What a run leaves behind.
Observed == Outcome(status_file, exit_code, uncaught, posted)

\* Some analyzed file's verdict has the status NEEDS_CHANGES.
SomeNeedsChanges ==
    \E k \in DOMAIN all_results : StatusIs(all_results[k].result, "NEEDS_CHANGES")

RemoveAt(seq, i) == SubSeq(seq, 1, i - 1) \o SubSeq(seq, i + 1, Len(seq))

(***************************************************************************)
(* C1.                                                                     *)
(***************************************************************************)
\* C1: in every run that passed the configuration check and analyzed at
\* least one file, when the process has ended the overall status is
\* NEEDS_CHANGES exactly if some analyzed file's verdict has the status
\* NEEDS_CHANGES; then the status file holds needs_changes and the exit
\* code is 1, otherwise the status file holds approved and the exit code
\* is 0.
C1_OverallIsOrOfVerdicts ==
    (Done /\ PassedConfig /\ all_results # <<>>) =>
        /\ (overall_status = "NEEDS_CHANGES") <=> SomeNeedsChanges
        /\ SomeNeedsChanges => (status_file = "needs_changes" /\ exit_code = 1)
        /\ ~SomeNeedsChanges => (status_file = "approved" /\ exit_code = 0)

(***************************************************************************)
(* C2.                                                                     *)
(***************************************************************************)
\* The replies C2 is about: the call raised, or the text, fences stripped
\* as lines 100-103 strip them, is not JSON.
FailedReplies ==
    {id \in ReplyIds :
        \/ Replies[id].exc # "none"
        \/ /\ Replies[id].content = "str"
           /\ ~json_loads(ExtractJson(Replies[id].text)).ok}

\* The fail-closed verdict: NEEDS_CHANGES and exactly one issue, of
\* severity error, at line 0.
IsFailClosed(v) ==
    /\ StatusIs(v, "NEEDS_CHANGES")
    /\ HasKey(v, "issues")
    /\ LET issues == Lookup(v, "issues")
       IN  /\ issues.t = "arr"
           /\ Len(issues.v) = 1
           /\ issues.v[1].t = "obj"
           /\ HasKey(issues.v[1], "severity")
           /\ StrEq(Lookup(issues.v[1], "severity"), "error")
           /\ HasKey(issues.v[1], "line")
           /\ Lookup(issues.v[1], "line") = JNum(0)

\* C2: for every call whose reply is an exception or a text that is not
\* JSON, analyze_code_with_ai returns the fail-closed verdict to main (no
\* exception leaves it) and the overall status is NEEDS_CHANGES.
C2_FailuresAreFailClosed ==
    \A k \in DOMAIN model_calls :
        model_calls[k][2] \in FailedReplies =>
            /\ k \in DOMAIN all_results
            /\ IsFailClosed(all_results[k].result)
            /\ overall_status = "NEEDS_CHANGES"
            /\ uncaught = "none"

(***************************************************************************)
(* C3.                                                                     *)
(***************************************************************************)
\* C3: when one of the six configuration values is absent the process
\* ends with code 1 and before that reads no list and no file, calls no
\* model, posts no comment and writes no status file.
C3_MissingConfigAborts ==
    env # EnvNames =>
        /\ pc \in {"import", "main", "done"}
        /\ Done => exit_code = 1
        /\ ~list_read
        /\ reads = <<>>
        /\ model_calls = <<>>
        /\ posted = <<>>
        /\ status_file = "absent"

(***************************************************************************)
(* C4.                                                                     *)
(***************************************************************************)
\* A listed path is filtered out: its extension is not recognized, it is
\* not on disk, or reading it fails.
FilteredOut(path) ==
    \/ splitext(path) \notin code_extensions
    \/ ~exists(path)
    \/ Disk(path).exc # "none"

\* The list is absent, empty or blank, or every listed path is filtered out.
NothingToAnalyze ==
    /\ list_read
    /\ \A i \in DOMAIN changed_files : FilteredOut(changed_files[i])

\* C4: in a run whose list is absent, empty or white space only, or whose
\* every listed path is filtered out, no model call is ever made and no
\* exception ends the process; the one comment posted is the "no code
\* files to review" comment, the status file is written after it with
\* approved, and the process then exits with code 0.
C4_NothingToAnalyzeIsApproved ==
    NothingToAnalyze =>
        /\ model_calls = <<>>
        /\ all_results = <<>>
        /\ uncaught = "none"
        /\ posted \in {<<>>, <<NoFilesComment>>}
        /\ pc \in {"write", "exit", "done"} => posted = <<NoFilesComment>>
        /\ status_file \in {"absent", "approved"}
        /\ pc \in {"exit", "done"} => status_file = "approved"
        /\ exit_code \in {-1, 0}
        /\ Done => exit_code = 0

\* A run over a list of two paths, both filtered out and one of them for a
\* read error, has ended after a post that failed.
C4_Witness ==
    /\ Done
    /\ NothingToAnalyze
    /\ Len(changed_files) = 2
    /\ LOCKED_GO \in Range(changed_files)
    /\ post_outcomes = <<"403">>
    /\ exit_code = 0

\* A run whose list file is absent has ended.
C4_WitnessAbsentList ==
    /\ Done
    /\ list_read
    /\ ~listfile.present
    /\ status_file = "approved"

(***************************************************************************)
(* C5.                                                                     *)
(***************************************************************************)
\* The extension of the path is not in the allow-list, compared exactly.
Unrecognized(path) == splitext(path) \notin code_extensions

\* The paths of the files a posted comment reports.
Reported(body) == {body.files[k][1] : k \in DOMAIN body.files}

\* C5: a listed path whose extension is not in the allow-list (case
\* matters) is never read, never sent to the model, never in the results
\* and never in the report; and when the run has ended, the status file,
\* the exit code, the exception and the comment are those of the run over
\* the list without that path, the model giving the same replies.
C5_UnrecognizedExtensionIsInert ==
    /\ \A k \in DOMAIN reads : ~Unrecognized(reads[k])
    /\ \A k \in DOMAIN model_calls : ~Unrecognized(model_calls[k][1])
    /\ \A k \in DOMAIN all_results : ~Unrecognized(all_results[k].file)
    /\ \A k \in DOMAIN posted : \A p \in Reported(posted[k]) : ~Unrecognized(p)
    /\ (Done /\ PassedConfig) =>
          \A i \in DOMAIN changed_files :
              Unrecognized(changed_files[i]) =>
                  MainOutcome(RemoveAt(changed_files, i), RepliesGiven) = Observed

\* A run over m.PY (upper-case extension) and an analyzed file that needs
\* changes has ended with code 1.
C5_Witness ==
    /\ Done
    /\ PassedConfig
    /\ Len(changed_files) = 2
    /\ MAIN_PY \in Range(changed_files)
    /\ Len(all_results) = 1
    /\ exit_code = 1
    /\ status_file = "needs_changes"

(***************************************************************************)
(* C6.                                                                     *)
(***************************************************************************)
\* C6: every run that passed the configuration check makes one post
\* attempt and then, whatever the attempt gave, writes the status file
\* with the lower-cased overall status (approved on the "no code files"
\* paths) and exits with the code of that status.
C6_StatusFileAlwaysWritten ==
    (Done /\ PassedConfig) =>
        /\ Len(post_outcomes) = 1
        /\ status_file = (IF NoFilesPath THEN "approved" ELSE lower(overall_status))
        /\ exit_code = (IF status_file = "needs_changes" THEN 1 ELSE 0)

(***************************************************************************)
(* C7.                                                                     *)
(***************************************************************************)
\* The text is JSON of the approved shape: status APPROVED, no issues, a
\* summary string.
IsApprovedShape(doc) ==
    LET parsed == json_loads(doc)
    IN  /\ parsed.ok
        /\ StatusIs(parsed.val, "APPROVED")
        /\ HasKey(parsed.val, "issues")
        /\ Lookup(parsed.val, "issues") = JArr(<<>>)
        /\ HasKey(parsed.val, "summary")
        /\ Lookup(parsed.val, "summary").t = "str"

\* The replies C7 is about: a text of the approved shape, bare or in one
\* labelled fence.
ApprovedReplies ==
    {id \in ReplyIds :
        /\ Replies[id].exc = "none"
        /\ Replies[id].content = "str"
        /\ \E doc \in {ApprovedJson, ApprovedTickJson} :
              /\ IsApprovedShape(doc)
              /\ Replies[id].text \in {doc, JsonFenced(doc), PlainFenced(doc)}}

\* C7: for every call whose reply is a text of the approved shape, bare or
\* fenced, whatever its summary says, the verdict analyze_code_with_ai
\* returns has the status APPROVED.
C7_ApprovedShapeIsApproved ==
    \A k \in DOMAIN model_calls :
        model_calls[k][2] \in ApprovedReplies =>
            /\ k \in DOMAIN all_results
            /\ StatusIs(all_results[k].result, "APPROVED")

(***************************************************************************)
(* C8.                                                                     *)
(***************************************************************************)
\* C8: a run that analyzed at least one file ends approved (status file
\* approved, exit code 0) only if the verdict of every analyzed file has
\* the status APPROVED exactly.
C8_ApprovedOnlyIfAllApproved ==
    (Done /\ all_results # <<>> /\ status_file = "approved" /\ exit_code = 0) =>
        \A k \in DOMAIN all_results : StatusIs(all_results[k].result, "APPROVED")

(***************************************************************************)
(* C9.                                                                     *)
(***************************************************************************)
\* C9: a run that passed the configuration check ends on no exception: it
\* has gone through every listed file, posted one comment, written the
\* status file and exited with 0 or 1 according to the overall status.
C9_NoAbnormalEnd ==
    (Done /\ PassedConfig) =>
        /\ uncaught = "none"
        /\ changed_files # <<>> => idx > Len(changed_files)
        /\ Len(posted) = 1
        /\ status_file \in {"approved", "needs_changes"}
        /\ exit_code = (IF status_file = "needs_changes" THEN 1 ELSE 0)

(***************************************************************************)
(* C10.                                                                    *)
(***************************************************************************)
\* The path has a recognized extension, is on disk and is read without
\* error.
ReadWithoutError(path) ==
    /\ splitext(path) \in code_extensions
    /\ exists(path)
    /\ Disk(path).exc = "none"

\* The passes of the loop that are over.
Passed == 1..(idx - 1)

\* C10: while the loop runs, every path of a pass that is over that was
\* read without error has been sent to the model once for each of its
\* passes and is in the results as often, whatever its content is; and a
\* path whose read failed has not been sent.
C10_ReadFilesAreAnalyzed ==
    pc = "loop" =>
        \A p \in Paths :
            LET passes == Cardinality({i \in Passed : changed_files[i] = p})
            IN  IF ReadWithoutError(p)
                THEN CallsFor(p) = passes /\ ResultsFor(p) = passes
                ELSE CallsFor(p) = 0 /\ ResultsFor(p) = 0

(***************************************************************************)
(* What C1 and C6 say of the runs that no exception ends.                  *)
(***************************************************************************)
\* A run that analyzed a file and ended on no exception has the overall
\* status, the status file and the exit code that the verdicts with the
\* status NEEDS_CHANGES decide.
CompletedRunsAggregate ==
    (Done /\ PassedConfig /\ all_results # <<>> /\ uncaught = "none") =>
        /\ (overall_status = "NEEDS_CHANGES") <=> SomeNeedsChanges
        /\ SomeNeedsChanges => (status_file = "needs_changes" /\ exit_code = 1)
        /\ ~SomeNeedsChanges => (status_file = "approved" /\ exit_code = 0)

\* Once NEEDS_CHANGES, the overall status stays NEEDS_CHANGES.
OverallStatusIsMonotonic ==
    [][overall_status = "NEEDS_CHANGES" => overall_status' = "NEEDS_CHANGES"]_vars

\* A run that reached the post has, once ended, written the status its
\* overall status decides, whatever the post gave.
CompletedRunsWriteStatus ==
    (Done /\ posted # <<>>) =>
        /\ Len(post_outcomes) = 1
        /\ status_file = (IF NoFilesPath THEN "approved" ELSE lower(overall_status))
        /\ exit_code = (IF status_file = "needs_changes" THEN 1 ELSE 0)

\* Every call whose reply is a text that is not JSON, or an exception other
\* than json.JSONDecodeError, gives the fail-closed verdict.
CaughtFailuresAreFailClosed ==
    \A k \in DOMAIN model_calls :
        (model_calls[k][2] \in FailedReplies
            /\ Replies[model_calls[k][2]].exc # "JSONDecodeError") =>
                /\ k \in DOMAIN all_results
                /\ IsFailClosed(all_results[k].result)
                /\ overall_status = "NEEDS_CHANGES"

=============================================================================
